---- MODULE Spec2Model ----
(***************************************************************************)
(* Model of robotoff's insight annotators (robotoff/insights/annotate.py)  *)
(* and of the OCR insight extraction script                                *)
(* (scripts/generate_ocr_insight.py).                                      *)
(*                                                                         *)
(* Annotation side: a table of ProductInsight rows, two client processes   *)
(* that create an annotator through InsightAnnotatorFactory and call       *)
(* annotate.  The spellcheck annotator runs inside db.atomic(): a          *)
(* PostgreSQL transaction at the default READ COMMITTED level, a SELECT    *)
(* that snapshots the sibling rows, then one UPDATE per row.               *)
(***************************************************************************)
EXTENDS Integers, Sequences, FiniteSets, TLC

VARIABLES
    insights,    \* committed ProductInsight table: id -> row
    base,        \* the table as it was initially (history variable)
    pc,          \* per process: position in create/annotate
    created,     \* per process: the last InsightAnnotatorFactory.create call
    tx,          \* per process: the running annotate call
    pre,         \* per process: the state when annotate was entered (history)
    calls,       \* per process: number of factory calls made
    instances,   \* the annotator instances constructed so far, in order
    http_log,    \* requests sent through http_session, in order
    warnings,    \* number of logger.warn calls
    saves,       \* number of other.save() calls issued
    payload,     \* the OCR provider response being processed
    phase,       \* position of the script on that response
    ocr_result,  \* the OCRResult built from the response
    extracted,   \* the last extract_insights call and its outcome
    custom_regex, \* an OCRRegex constructed by a caller of the script
    got_text,    \* the last get_text call on the document and its outcome
    args,        \* command line of a batch run: input mode and insight type
    items,       \* what ocr_iter meets on the input, in order
    cursor,      \* index of the item the loop of run is at
    output,      \* lines written to the output so far
    run_status   \* "running", "finished" or "raised"

annVars == <<insights, base, pc, created, tx, pre, calls, instances,
             http_log, warnings, saves>>

ocrVars == <<payload, phase, ocr_result, extracted>>

queryVars == <<custom_regex, got_text>>

batchVars == <<args, items, cursor, output, run_status>>

scriptVars == <<ocrVars, queryVars, batchVars>>

vars == <<annVars, scriptVars>>

(***************************************************************************)
(* Bounds                                                                  *)
(***************************************************************************)
MaxCalls == 2

\* factory calls per client when two clients run at the same time
MaxConcCalls == 1

\* tokens in a full text, regions in a response
MaxTokens == 2

MaxRegions == 2

\* images, files or lines met by one batch run
MaxItems == 2

Procs == {1, 2}

None == "None"

(***************************************************************************)
(* The ProductInsight rows.  Rows 1..4 are spellcheck insights of product  *)
(* P (row 3 shortens its text by one character, row 4 keeps the length),   *)
(* row 5 a spellcheck insight of product Q, row 6 a packager code insight  *)
(* of product P.  Row 4 has been annotated already, the others are pending.*)
(***************************************************************************)
InsightIds == 1..6

SPELLCHECK == "ingredient_spellcheck"

\* (original, correction) pairs of a spellcheck insight: +3, -1, 0
Edits == { <<"abc", "abcdef">>, <<"ab", "a">>, <<"ab", "cd">> }

\* the annotation state of a row: null while the insight is pending
PENDING == "None"

ACCEPTED == "1"

SpellRow(b, s, e, ed) ==
    [barcode |-> b, type |-> SPELLCHECK, annotation |-> PENDING,
     data |-> [original |-> ed[1], correction |-> ed[2],
               start_offset |-> s, end_offset |-> e]]

PackagerRow(b, t) ==
    [barcode |-> b, type |-> "packager_code", annotation |-> PENDING,
     data |-> [text |-> t]]

InitTable(e1, e2) ==
    (1 :> SpellRow("P", 0, 5, e1)) @@
    (2 :> SpellRow("P", 20, 26, e2)) @@
    (3 :> SpellRow("P", 30, 34, <<"ab", "a">>)) @@
    (4 :> [SpellRow("P", 40, 41, <<"ab", "cd">>)
              EXCEPT !.annotation = ACCEPTED]) @@
    (5 :> SpellRow("Q", 7, 9, <<"abc", "abcdef">>)) @@
    (6 :> PackagerRow("P", "EMB 12345a"))

(***************************************************************************)
(* InsightAnnotatorFactory                                                 *)
(***************************************************************************)
Identifiers == {"packager_code", "ingredient_spellcheck", "label", "nutriscore"}

mapping ==
    [identifier \in {"packager_code", "ingredient_spellcheck"} |->
        IF identifier = "packager_code" THEN "PackagerCodeAnnotator"
                                        ELSE "IngredientSpellcheckAnnotator"]

NoAnnotator == [cls |-> None, oid |-> 0]

\* A create that answers an unknown identifier with no annotator and no error.
createSilent(identifier, oid) ==
    IF identifier \notin DOMAIN mapping
    THEN [identifier |-> identifier, error |-> None, value |-> NoAnnotator]
    ELSE [identifier |-> identifier, error |-> None,
          value |-> [cls |-> mapping[identifier], oid |-> oid]]

\* InsightAnnotatorFactory.create: ValueError, or cls.mapping[identifier]()
\* (oid is the identity of the object the constructor call makes)
create(identifier, oid) ==
    IF identifier \notin DOMAIN mapping
    THEN [identifier |-> identifier, error |-> "unknown annotator",
          value |-> NoAnnotator]
    ELSE [identifier |-> identifier, error |-> None,
          value |-> [cls |-> mapping[identifier], oid |-> oid]]

NoTx == [insight |-> 0, diff_len |-> 0, cursor |-> <<>>, writes |-> <<>>,
         error |-> None]

NotCreated == [identifier |-> None, error |-> None, value |-> NoAnnotator]

Create(p, identifier, bound) ==
    /\ UNCHANGED scriptVars
    /\ pc[p] \in {"idle", "done", "failed"}
    /\ calls[p] < bound
    /\ LET r == create(identifier, Len(instances) + 1) IN
        /\ calls' = [calls EXCEPT ![p] = @ + 1]
        /\ created' = [created EXCEPT ![p] = r]
        /\ tx' = [tx EXCEPT ![p] = [NoTx EXCEPT !.error = r.error]]
        /\ pc' = [pc EXCEPT ![p] = IF r.error # None THEN "failed" ELSE "ready"]
        /\ instances' = IF r.value # NoAnnotator
                        THEN Append(instances, r.value) ELSE instances
    /\ UNCHANGED <<insights, base, pre, http_log, warnings, saves>>

\* the caller hands an insight to the annotator created for its type
Holds(p, cls, i) ==
    /\ pc[p] = "ready"
    /\ created[p].value.cls = cls
    /\ insights[i].type = created[p].identifier

Snapshot == [insights |-> insights, saves |-> saves, warnings |-> warnings,
             requests |-> Len(http_log)]

(***************************************************************************)
(* PackagerCodeAnnotator                                                   *)
(***************************************************************************)
SUCCESS_STATUS == "fields saved"

\* What http_session.get can produce: the call raising (no response), or a
\* response with an HTTP status code and a body that is JSON or not; a JSON
\* body carries 'status_verbose' or lacks it (json.get gives None).
Responses ==
    { [transport |-> "error", code |-> 0, json |-> FALSE, status_verbose |-> None] }
    \cup
    { [transport |-> "ok", code |-> c, json |-> j, status_verbose |-> s] :
        c \in {200, 500}, j \in BOOLEAN,
        s \in {SUCCESS_STATUS, "not saved", None} }

\* A send_request that treats every non-success status as an exception.
send_request_strict(resp) ==
    IF resp.transport # "ok"
    THEN [error |-> "ConnectionError", warn |-> FALSE]
    ELSE IF resp.code >= 400
    THEN [error |-> "HTTPError", warn |-> FALSE]
    ELSE IF ~resp.json
    THEN [error |-> "ValueError", warn |-> FALSE]
    ELSE IF resp.status_verbose # SUCCESS_STATUS
    THEN [error |-> "ValueError", warn |-> TRUE]
    ELSE [error |-> None, warn |-> FALSE]

\* PackagerCodeAnnotator.send_request, given the response to its one GET:
\* the exception it ends with (None when it returns) and whether it warns.
send_request(resp) ==
    IF resp.transport # "ok"
    THEN [error |-> "ConnectionError", warn |-> FALSE]
    ELSE IF resp.code >= 400
    THEN [error |-> "HTTPError", warn |-> FALSE]
    ELSE IF ~resp.json
    THEN [error |-> "ValueError", warn |-> FALSE]
    ELSE [error |-> None, warn |-> resp.status_verbose # SUCCESS_STATUS]

\* the query parameters of the GET (credentials left out)
request_params(barcode, emb_code) ==
    [code |-> barcode, add_emb_codes |-> emb_code]

PackagerAnnotate(p, i, resp) ==
    /\ UNCHANGED scriptVars
    /\ Holds(p, "PackagerCodeAnnotator", i)
    /\ LET emb_code == insights[i].data.text
           r == send_request(resp) IN
        /\ http_log' = Append(http_log,
               [params |-> request_params(insights[i].barcode, emb_code),
                by |-> p, resp |-> resp])
        /\ warnings' = IF r.warn THEN warnings + 1 ELSE warnings
        /\ tx' = [tx EXCEPT ![p] = [NoTx EXCEPT !.insight = i, !.error = r.error]]
        /\ pc' = [pc EXCEPT ![p] = IF r.error = None THEN "done" ELSE "failed"]
    /\ pre' = [pre EXCEPT ![p] = Snapshot]
    /\ UNCHANGED <<insights, base, created, calls, instances, saves>>

(***************************************************************************)
(* IngredientSpellcheckAnnotator                                           *)
(***************************************************************************)
RECURSIVE Perms(_)
Perms(S) ==
    IF S = {} THEN { <<>> }
    ELSE UNION { { <<x>> \o q : q \in Perms(S \ {x}) } : x \in S }

diff_len(insight) == Len(insight.data.correction) - Len(insight.data.original)

\* if diff_len == 0: return
ShortCircuitNever(d) == FALSE

ShortCircuit(d) == d = 0

\* A sibling query that forgets ProductInsight.id != insight.id.
SiblingsWithSelf(table, barcode, id) ==
    { o \in DOMAIN table :
        /\ table[o].barcode = barcode
        /\ table[o].type = "ingredient_spellcheck" }

\* the WHERE clause of the sibling query
Siblings(table, barcode, id) ==
    { o \in DOMAIN table :
        /\ table[o].barcode = barcode
        /\ o # id
        /\ table[o].type = "ingredient_spellcheck" }

\* A loop body that moves the start of the range only.
ShiftedStartOnly(data, d) ==
    [data EXCEPT !.start_offset = @ + d]

\* other.data['start_offset'] += diff_len; other.data['end_offset'] += diff_len
Shifted(data, d) ==
    [data EXCEPT !.start_offset = @ + d, !.end_offset = @ + d]

\* the table with a transaction's updates applied
Apply(table, writes) ==
    [o \in DOMAIN table |->
        IF o \in DOMAIN writes THEN [table[o] EXCEPT !.data = writes[o]]
        ELSE table[o]]

\* Saves that take effect one by one, with no enclosing transaction.
RollbackKeepsWrites(table, writes) == Apply(table, writes)

\* db.atomic() left by an exception: ROLLBACK, the updates are dropped
Rollback(table, writes) == table

\* rows another running transaction has updated and not yet committed
LockedByOther(p) ==
    UNION { DOMAIN tx[q].writes : q \in { q \in Procs \ {p} : pc[q] = "loop" } }

\* annotate up to the start of the loop: the delta, the early return, and
\* inside db.atomic() the execution of the SELECT, which returns the
\* committed rows in an order the query does not fix.
SpellcheckAnnotate(p, i) ==
    /\ UNCHANGED scriptVars
    /\ Holds(p, "IngredientSpellcheckAnnotator", i)
    /\ pre' = [pre EXCEPT ![p] = Snapshot]
    /\ LET d == diff_len(insights[i]) IN
        IF ShortCircuit(d)
        THEN /\ tx' = [tx EXCEPT ![p] = [NoTx EXCEPT !.insight = i]]
             /\ pc' = [pc EXCEPT ![p] = "done"]
        ELSE \E order \in Perms(Siblings(insights, insights[i].barcode, i)) :
             /\ tx' = [tx EXCEPT ![p] =
                    [insight |-> i, diff_len |-> d,
                     cursor |-> [k \in 1..Len(order) |->
                                   [id |-> order[k], data |-> insights[order[k]].data]],
                     writes |-> <<>>, error |-> None]]
             /\ pc' = [pc EXCEPT ![p] = "loop"]
    /\ UNCHANGED <<insights, base, created, calls, instances, http_log,
                   warnings, saves>>

\* one iteration of the loop: shift the fetched copy and save it.  The
\* UPDATE waits while another transaction holds the row.
SaveOther(p) ==
    /\ UNCHANGED scriptVars
    /\ pc[p] = "loop"
    /\ tx[p].cursor # <<>>
    /\ LET other == Head(tx[p].cursor) IN
        /\ other.id \notin LockedByOther(p)
        /\ tx' = [tx EXCEPT ![p].cursor = Tail(@),
                            ![p].writes = (other.id :> Shifted(other.data, tx[p].diff_len)) @@ @]
    /\ saves' = saves + 1
    /\ UNCHANGED <<insights, base, pc, created, pre, calls, instances,
                   http_log, warnings>>

\* other.save() raises: db.atomic() rolls the transaction back and re-raises
SaveFails(p) ==
    /\ UNCHANGED scriptVars
    /\ pc[p] = "loop"
    /\ tx[p].cursor # <<>>
    /\ insights' = Rollback(insights, tx[p].writes)
    /\ tx' = [tx EXCEPT ![p].writes = <<>>, ![p].error = "DatabaseError"]
    /\ pc' = [pc EXCEPT ![p] = "failed"]
    /\ UNCHANGED <<base, created, pre, calls, instances, http_log,
                   warnings, saves>>

\* leaving the with-block: COMMIT
Commit(p) ==
    /\ UNCHANGED scriptVars
    /\ pc[p] = "loop"
    /\ tx[p].cursor = <<>>
    /\ insights' = Apply(insights, tx[p].writes)
    /\ pc' = [pc EXCEPT ![p] = "done"]
    /\ UNCHANGED <<base, created, tx, pre, calls, instances, http_log,
                   warnings, saves>>

\* two transactions each waiting for a row the other holds: the database
\* aborts one of them, whose save() raises
DeadlockAbort(p) ==
    /\ UNCHANGED scriptVars
    /\ pc[p] = "loop"
    /\ tx[p].cursor # <<>>
    /\ \E q \in Procs \ {p} :
        /\ pc[q] = "loop"
        /\ tx[q].cursor # <<>>
        /\ Head(tx[p].cursor).id \in DOMAIN tx[q].writes
        /\ Head(tx[q].cursor).id \in DOMAIN tx[p].writes
    /\ insights' = Rollback(insights, tx[p].writes)
    /\ tx' = [tx EXCEPT ![p].writes = <<>>, ![p].error = "DeadlockDetected"]
    /\ pc' = [pc EXCEPT ![p] = "failed"]
    /\ UNCHANGED <<base, created, pre, calls, instances, http_log,
                   warnings, saves>>

(***************************************************************************)
(* OCR side.  A Python str is a sequence of one-character strings; an      *)
(* Optional[str] is a record with a 'none' flag.                           *)
(***************************************************************************)
UpperChars == <<"A", "B", "C", "D", "E", "F", "G", "H", "I", "J", "K", "L",
    "M", "N", "O", "P", "Q", "R", "S", "T", "U", "V", "W", "X", "Y", "Z",
    "É", "Ö">>

LowerChars == <<"a", "b", "c", "d", "e", "f", "g", "h", "i", "j", "k", "l",
    "m", "n", "o", "p", "q", "r", "s", "t", "u", "v", "w", "x", "y", "z",
    "é", "ö">>

lower_char(c) ==
    IF \E k \in 1..Len(UpperChars) : UpperChars[k] = c
    THEN LowerChars[CHOOSE k \in 1..Len(UpperChars) : UpperChars[k] = c]
    ELSE c

\* str.lower()
lower(text) == [k \in 1..Len(text) |-> lower_char(text[k])]

\* A replace that leaves the text as it is.
replace_newline_noop(text) == text

\* text.replace('\n', ' ')
replace_newline(text) ==
    [k \in 1..Len(text) |-> IF text[k] = "\n" THEN " " ELSE text[k]]

\* text.replace(' ', '')
RECURSIVE remove_spaces(_)
remove_spaces(text) ==
    IF text = <<>> THEN <<>>
    ELSE IF Head(text) = " " THEN remove_spaces(Tail(text))
    ELSE <<Head(text)>> \o remove_spaces(Tail(text))

RECURSIVE Concat(_)
Concat(seqs) ==
    IF seqs = <<>> THEN <<>> ELSE Head(seqs) \o Concat(Tail(seqs))

NoneStr == [none |-> TRUE, str |-> <<>>]

Some(text) == [none |-> FALSE, str |-> text]

(***************************************************************************)
(* Regular expressions.  A compiled pattern is a sequence of elements: a   *)
(* literal, a character class repeated min..max times (greedy), or a group *)
(* of literal alternatives tried in order (optional groups try the empty   *)
(* string last); 'ignorecase' is the re.IGNORECASE flag.                   *)
(***************************************************************************)
Lit(t) == [kind |-> "lit", text |-> t]

Cls(S, m, n) == [kind |-> "class", set |-> S, min |-> m, max |-> n]

Alt(alts, opt) == [kind |-> "alt", alts |-> alts, opt |-> opt]

compile(elems, ignorecase) == [elems |-> elems, ignorecase |-> ignorecase]

\* \d
DIGIT == {"0", "1", "2", "3", "4", "5", "6", "7", "8", "9"}

\* \s
WHITESPACE == {" ", "\n", "\t"}

\* [\-\s.]
SEP == {"-", "."} \cup WHITESPACE

\* [\s.,)]
END == {".", ",", ")"} \cup WHITESPACE

\* [a-zA-Z]
LETTER == { UpperChars[k] : k \in 1..26 } \cup { LowerChars[k] : k \in 1..26 }

CharEq(c, d, ignorecase) ==
    IF ignorecase THEN lower_char(c) = lower_char(d) ELSE c = d

InClass(c, S, ignorecase) == \E d \in S : CharEq(c, d, ignorecase)

\* whether literal t occurs in text at position pos
LitAt(re, t, text, pos) ==
    /\ pos + Len(t) - 1 <= Len(text)
    /\ \A k \in 1..Len(t) : CharEq(text[pos + k - 1], t[k], re.ignorecase)

\* how many characters from pos on lie in S, up to n
RECURSIVE Run(_, _, _, _, _)
Run(re, S, text, pos, n) ==
    IF n = 0 \/ pos > Len(text) \/ ~InClass(text[pos], S, re.ignorecase)
    THEN 0
    ELSE 1 + Run(re, S, text, pos + 1, n - 1)

NoMatch == [ok |-> FALSE, ends |-> <<>>]

\* The backtracking matcher: elements k.. of re against text from pos.  The
\* result lists, for each element, the position after its match.
RECURSIVE MatchFrom(_, _, _, _), TryCounts(_, _, _, _, _), TryAlts(_, _, _, _, _)
MatchFrom(re, k, text, pos) ==
    IF k > Len(re.elems) THEN [ok |-> TRUE, ends |-> <<>>]
    ELSE LET e == re.elems[k] IN
         IF e.kind = "lit"
         THEN IF LitAt(re, e.text, text, pos)
              THEN LET r == MatchFrom(re, k + 1, text, pos + Len(e.text)) IN
                   IF r.ok
                   THEN [ok |-> TRUE,
                       ends |-> <<pos + Len(e.text)>> \o r.ends]
                   ELSE NoMatch
              ELSE NoMatch
         ELSE IF e.kind = "class"
         THEN TryCounts(re, k, text, pos, Run(re, e.set, text, pos, e.max))
         ELSE TryAlts(re, k, text, pos, 1)

\* greedy repetition: the longest run first, then shorter ones
TryCounts(re, k, text, pos, n) ==
    IF n < re.elems[k].min THEN NoMatch
    ELSE LET r == MatchFrom(re, k + 1, text, pos + n) IN
         IF r.ok THEN [ok |-> TRUE, ends |-> <<pos + n>> \o r.ends]
         ELSE TryCounts(re, k, text, pos, n - 1)

\* alternatives in the order written, then nothing if the group is optional
TryAlts(re, k, text, pos, a) ==
    LET e == re.elems[k] IN
    IF a > Len(e.alts)
    THEN IF e.opt
         THEN LET r == MatchFrom(re, k + 1, text, pos) IN
              IF r.ok THEN [ok |-> TRUE, ends |-> <<pos>> \o r.ends]
              ELSE NoMatch
         ELSE NoMatch
    ELSE IF LitAt(re, e.alts[a], text, pos)
    THEN LET r == MatchFrom(re, k + 1, text, pos + Len(e.alts[a])) IN
         IF r.ok
         THEN [ok |-> TRUE, ends |-> <<pos + Len(e.alts[a])>> \o r.ends]
         ELSE TryAlts(re, k, text, pos, a + 1)
    ELSE TryAlts(re, k, text, pos, a + 1)

MatchEnd(m) == m.ends[Len(m.ends)]

\* regex.finditer(text): the non-overlapping matches, left to right
RECURSIVE finditer_from(_, _, _)
finditer_from(re, text, pos) ==
    IF pos > Len(text) THEN <<>>
    ELSE LET r == MatchFrom(re, 1, text, pos) IN
         IF r.ok
         THEN LET m == [start |-> pos, ends |-> r.ends, string |-> text] IN
              <<m>> \o finditer_from(re, text,
                          IF MatchEnd(m) = pos THEN pos + 1 ELSE MatchEnd(m))
         ELSE finditer_from(re, text, pos + 1)

finditer(re, text) == finditer_from(re, text, 1)

ElemStart(m, k) == IF k = 1 THEN m.start ELSE m.ends[k - 1]

\* the text matched by elements a..b of the pattern
Span(m, a, b) == SubSeq(m.string, ElemStart(m, a), m.ends[b] - 1)

\* match.group() / match.group(0)
group0(m) == Span(m, 1, Len(m.ends))

(***************************************************************************)
(* The pattern registry                                                    *)
(***************************************************************************)
\* class OCRField
OCRFields == {"full_text", "full_text_contiguous", "text_annotations"}

\* OCRRegex.__init__: stores its arguments
OCRRegex(regex, field, lowercase, processing_func) ==
    [regex |-> regex, field |-> field, lowercase |-> lowercase,
     processing_func |-> processing_func]

OPT_SPACE == Cls({" "}, 0, 1)

E_ACUTE == Cls({"é", "e"}, 1, 1)

OPT_S == Cls({"s"}, 0, 1)

PACKAGER_CODE == <<
    [code |-> "fr_emb",
     ocr_regex |-> OCRRegex(
        compile(<<Alt(<<<<"E", "M", "B">>>>, FALSE), OPT_SPACE,
                  Cls(DIGIT, 1, 1), OPT_SPACE, Cls(DIGIT, 1, 1), OPT_SPACE,
                  Cls(DIGIT, 1, 1), OPT_SPACE, Cls(DIGIT, 1, 1), OPT_SPACE,
                  Cls(DIGIT, 1, 1), Cls(LETTER, 0, 2)>>, FALSE),
        "text_annotations", TRUE, "process_fr_emb_match")],
    [code |-> "eu_fr",
     ocr_regex |-> OCRRegex(
        compile(<<Alt(<<<<"F", "R">>>>, FALSE), Lit(<<" ">>),
                  Cls(DIGIT, 1, 3), Cls(SEP, 1, 1), Cls(DIGIT, 1, 3),
                  Cls(SEP, 1, 1), Cls(DIGIT, 1, 3), Lit(<<" ">>),
                  Alt(<<<<"C", "E">>, <<"E", "C">>>>, FALSE)>>, FALSE),
        "full_text_contiguous", TRUE, "process_fr_packaging_match")] >>

EN_ORGANIC == <<"e", "n", ":", "o", "r", "g", "a", "n", "i", "c">>

XX_BIO_XX == <<"x", "x", "-", "b", "i", "o", "-", "x", "x">>

FR_AB == <<"f", "r", ":", "a", "b", "-", "a", "g", "r", "i", "c", "u", "l",
    "t", "u", "r", "e", "-", "b", "i", "o", "l", "o", "g", "i", "q", "u",
    "e">>

LABELS_REGEX == <<
    [label_tag |-> EN_ORGANIC,
     regex_list |-> <<
        OCRRegex(compile(<<Lit(<<"i", "n", "g", "r">>), E_ACUTE, Lit(<<"d",
            "i", "e", "n", "t">>), OPT_S,
                           Cls(WHITESPACE, 1, 1), Lit(<<"b", "i", "o", "l",
                               "o", "g", "i", "q", "u", "e">>),
                           OPT_S>>, TRUE),
                 "full_text_contiguous", TRUE, "None"),
        OCRRegex(compile(<<Lit(<<"i", "n", "g", "r">>), E_ACUTE, Lit(<<"d",
            "i", "e", "n", "t">>), OPT_S,
                           Cls(WHITESPACE, 1, 1), Lit(<<"b", "i", "o">>),
                           Cls(END, 1, 1)>>, FALSE),
                 "full_text_contiguous", TRUE, "None"),
        OCRRegex(compile(<<Lit(<<"a", "g", "r", "i", "c", "u", "l", "t", "u",
            "r", "e", " ", "u", "e", "/", "n", "o", "n", " ", "u", "e", " ",
            "b", "i", "o", "l", "o", "g", "i", "q", "u", "e">>)>>, FALSE),
                 "full_text_contiguous", TRUE, "None"),
        OCRRegex(compile(<<Lit(<<"a", "g", "r", "i", "c", "u", "l", "t", "u",
            "r", "e", " ", "b", "i", "o">>),
                           Alt(<<<<"l", "o", "g", "i", "q", "u", "e">>>>,
                               TRUE), Cls(END, 1, 1)>>, FALSE),
                 "full_text_contiguous", TRUE, "None"),
        OCRRegex(compile(<<Lit(<<"p", "r", "o", "d", "u", "c", "t", "i", "o",
            "n", " ", "b", "i", "o">>),
                           Alt(<<<<"l", "o", "g", "i", "q", "u", "e">>>>,
                               TRUE), Cls(END, 1, 1)>>, FALSE),
                 "full_text_contiguous", TRUE, "None") >>],
    [label_tag |-> XX_BIO_XX,
     regex_list |-> <<
        OCRRegex(compile(<<Cls({ UpperChars[k] : k \in 1..26 }, 2, 2),
                           Cls(SEP, 1, 1), Alt(<<<<"B", "I", "O">>, <<"Ö",
                               "K", "O">>>>, FALSE),
                           Cls(SEP, 1, 1), Cls(DIGIT, 2, 3)>>, FALSE),
                 "text_annotations", FALSE, "process_eu_bio_label_code") >>],
    [label_tag |-> FR_AB,
     regex_list |-> <<
        OCRRegex(compile(<<Lit(<<"c", "e", "r", "t", "i", "f", "i">>),
            E_ACUTE, Lit(<<" ", "a", "b">>),
                           Cls(END, 1, 1)>>, FALSE),
                 "full_text_contiguous", TRUE, "None") >>] >>

\* "{} {}.{}.{} {}".format(country_code, *approval_numbers, ec)
process_fr_packaging_match(m) ==
    Span(m, 1, 1) \o <<" ">> \o Span(m, 3, 3) \o <<".">> \o Span(m, 5, 5)
        \o <<".">> \o Span(m, 7, 7) \o <<" ">> \o Span(m, 9, 9)

\* "{} {}{}".format(emb_str, city_code.replace(' ', ''), company_code or '')
process_fr_emb_match(m) ==
    Span(m, 1, 1) \o <<" ">> \o remove_spaces(Span(m, 3, 11)) \o Span(m, 12,
        12)

\* "{}-{}-{}".format(match.group(1), match.group(2), match.group(3))
process_eu_bio_label_code(m) ==
    Span(m, 1, 1) \o <<"-">> \o Span(m, 3, 3) \o <<"-">> \o Span(m, 5, 5)

\* ocr_regex.processing_func(match)
processing(func, m) ==
    CASE func = "process_fr_packaging_match" -> process_fr_packaging_match(m)
      [] func = "process_fr_emb_match" -> process_fr_emb_match(m)
      [] func = "process_eu_bio_label_code" -> process_eu_bio_label_code(m)

(***************************************************************************)
(* The OCR document model.  A dict is a record with a has_<key> flag for   *)
(* each key it may lack.                                                   *)
(***************************************************************************)
\* OCRTextAnnotation.__init__
OCRTextAnnotation(data) ==
    IF ~data.has_description \/ ~data.has_boundingPoly
    THEN [error |-> "KeyError",
          value |-> [locale |-> NoneStr, text |-> <<>>,
              bounding_poly |-> <<>>]]
    ELSE [error |-> "None",
          value |-> [locale |-> data.locale, text |-> data.description,
                     bounding_poly |->
                        [k \in 1..Len(data.vertices) |->
                            <<IF data.vertices[k].has_x
                                THEN data.vertices[k].x ELSE 0,
                              IF data.vertices[k].has_y
                                THEN data.vertices[k].y ELSE 0>>]]]

NoFullText == [none |-> TRUE, text |-> <<>>, contiguous_text |-> <<>>,
               pages |-> <<>>]

\* OCRFullTextAnnotation.__init__
OCRFullTextAnnotation(data) ==
    IF ~data.has_text
    THEN [error |-> "KeyError", value |-> NoFullText]
    ELSE [error |-> "None",
          value |-> [none |-> FALSE, text |-> data.text,
                     contiguous_text |-> replace_newline(data.text),
                     pages |-> <<>>]]

NotBuilt == [text_annotations |-> <<>>, full_text_annotation |-> NoFullText]

\* the constructor's work once the list of region dicts is chosen
BuildOCRResult(data, regions) ==
    LET built == [k \in 1..Len(regions) |-> OCRTextAnnotation(regions[k])]
        full_text_annotation_data == data.fullTextAnnotation
        truthy == data.has_fullTextAnnotation /\ ~full_text_annotation_data.empty
        full == OCRFullTextAnnotation(full_text_annotation_data)
    IN  IF \E k \in 1..Len(regions) : built[k].error # "None"
        THEN [error |-> "KeyError", value |-> NotBuilt]
        ELSE IF truthy /\ full.error # "None"
        THEN [error |-> "KeyError", value |-> NotBuilt]
        ELSE [error |-> "None",
              value |-> [text_annotations |->
                            [k \in 1..Len(regions) |-> built[k].value],
                         full_text_annotation |->
                            IF truthy THEN full.value ELSE NoFullText]]

\* An OCRResult.__init__ that reads data['textAnnotations'] without a default.
OCRResultStrict(data) ==
    IF ~data.has_textAnnotations
    THEN [error |-> "KeyError", value |-> NotBuilt]
    ELSE BuildOCRResult(data, data.textAnnotations)

\* OCRResult.__init__: data.get('textAnnotations', []), data.get('fullTextAnnotation')
OCRResult(data) ==
    BuildOCRResult(data, IF data.has_textAnnotations
                         THEN data.textAnnotations ELSE <<>>)

\* OCRResult.get_full_text
get_full_text(self, lowercase) ==
    IF ~self.full_text_annotation.none
    THEN IF lowercase THEN Some(lower(self.full_text_annotation.text))
         ELSE Some(self.full_text_annotation.text)
    ELSE NoneStr

\* A get_full_text_contiguous that answers from the full text itself.
get_full_text_contiguous_raw(self, lowercase) ==
    get_full_text(self, lowercase)

\* OCRResult.get_full_text_contiguous
get_full_text_contiguous(self, lowercase) ==
    IF ~self.full_text_annotation.none
    THEN IF lowercase
         THEN Some(lower(self.full_text_annotation.contiguous_text))
         ELSE Some(self.full_text_annotation.contiguous_text)
    ELSE NoneStr

\* OCRResult.iter_text_annotations: the lowercase branch yields and falls
\* through to the second yield
iter_text_annotations(self, lowercase) ==
    Concat([k \in 1..Len(self.text_annotations) |->
              IF lowercase
              THEN <<lower(self.text_annotations[k].text),
                     self.text_annotations[k].text>>
              ELSE <<self.text_annotations[k].text>>])

\* 'if text:' on an Optional[str]
Truthy(text) == ~text.none /\ text.str # <<>>

\* OCRResult.get_text
get_text(self, ocr_regex) ==
    LET field == ocr_regex.field IN
    IF field = "full_text"
    THEN LET text == get_full_text(self, ocr_regex.lowercase) IN
         [error |-> "None",
             texts |-> IF Truthy(text) THEN <<text.str>> ELSE <<>>]
    ELSE IF field = "full_text_contiguous"
    THEN LET text == get_full_text_contiguous(self, ocr_regex.lowercase) IN
         [error |-> "None",
             texts |-> IF Truthy(text) THEN <<text.str>> ELSE <<>>]
    ELSE IF field = "text_annotations"
    THEN [error |-> "None",
          texts |-> iter_text_annotations(self, ocr_regex.lowercase)]
    ELSE [error |-> "invalid field", texts |-> <<>>]

(***************************************************************************)
(* Extraction                                                              *)
(***************************************************************************)
\* the records one matcher of PACKAGER_CODE appends
packager_code_records(ocr, regex_code, ocr_regex) ==
    LET texts == get_text(ocr, ocr_regex).texts IN
    Concat([t \in 1..Len(texts) |->
        LET matches == finditer(ocr_regex.regex, texts[t]) IN
        [k \in 1..Len(matches) |->
            [raw |-> group0(matches[k]),
             text |-> processing(ocr_regex.processing_func, matches[k]),
             type |-> regex_code]]])

find_packager_codes(ocr) ==
    Concat([c \in 1..Len(PACKAGER_CODE) |->
        packager_code_records(ocr, PACKAGER_CODE[c].code,
                              PACKAGER_CODE[c].ocr_regex)])

\* A matcher loop that visits the candidate texts last to first.
label_records_last_first(ocr, label_tag, ocr_regex) ==
    LET texts == get_text(ocr, ocr_regex).texts IN
    Concat([t \in 1..Len(texts) |->
        LET matches == finditer(ocr_regex.regex, texts[Len(texts) + 1 - t]) IN
        [k \in 1..Len(matches) |->
            [label_tag |-> IF ocr_regex.processing_func # "None"
                           THEN processing(ocr_regex.processing_func, matches[k])
                           ELSE label_tag,
             text |-> group0(matches[k])]]])

\* the records one matcher of LABELS_REGEX appends
label_records(ocr, label_tag, ocr_regex) ==
    LET texts == get_text(ocr, ocr_regex).texts IN
    Concat([t \in 1..Len(texts) |->
        LET matches == finditer(ocr_regex.regex, texts[t]) IN
        [k \in 1..Len(matches) |->
            [label_tag |-> IF ocr_regex.processing_func # "None"
                           THEN processing(ocr_regex.processing_func, matches[k])
                           ELSE label_tag,
             text |-> group0(matches[k])]]])

find_labels(ocr) ==
    Concat([c \in 1..Len(LABELS_REGEX) |->
        Concat([r \in 1..Len(LABELS_REGEX[c].regex_list) |->
            label_records(ocr, LABELS_REGEX[c].label_tag,
                          LABELS_REGEX[c].regex_list[r])])])

\* An extract_insights that answers an unknown type with an empty list.
extract_insights_silent(ocr, insight_type) ==
    IF insight_type = "packager_code"
    THEN [error |-> "None", value |-> find_packager_codes(ocr)]
    ELSE IF insight_type = "label"
    THEN [error |-> "None", value |-> find_labels(ocr)]
    ELSE [error |-> "None", value |-> <<>>]

extract_insights(ocr, insight_type) ==
    IF insight_type = "packager_code"
    THEN [error |-> "None", value |-> find_packager_codes(ocr)]
    ELSE IF insight_type = "label"
    THEN [error |-> "None", value |-> find_labels(ocr)]
    ELSE [error |-> "unknown insight type", value |-> <<>>]

(***************************************************************************)
(* Provider responses handed to the script                                 *)
(***************************************************************************)
T_FR == <<"F", "R", " ", "8", "3", ".", "4", "0", "0", ".", "0", "1", "1",
    " ", "C", "E">>

T_BIO == <<"a", "g", "r", "i", "c", "u", "l", "t", "u", "r", "e", " ", "b",
    "i", "o", "l", "o", "g", "i", "q", "u", "e", " ">>

T_BIO_UPPER_NL == <<"A", "G", "R", "I", "C", "U", "L", "T", "U", "R", "E",
    " ", "B", "I", "O", "L", "O", "G", "I", "Q", "U", "E", "\n">>

T_AB == <<"C", "e", "r", "t", "i", "f", "i", "é", " ", "A", "B", ".">>

Tokens == {T_FR, T_BIO, T_BIO_UPPER_NL, T_AB}

R_EMB == <<"E", "M", "B", " ", "1", "2", "3", "4", "5", "a", " ", "N", "L",
    "-", "B", "I", "O", "-", "0", "1">>

R_BIO == <<"D", "E", "-", "Ö", "K", "O", "-", "0", "1", "2", " ", "F", "R",
    "-", "B", "I", "O", "-", "0", "1">>

SeqsUpTo(S, n) == UNION { [1..k -> S] : k \in 0..n }

Texts == { Concat(ts) : ts \in SeqsUpTo(Tokens, MaxTokens) }

Vertices == <<[has_x |-> TRUE, x |-> 3, has_y |-> FALSE, y |-> 0]>>

Region(desc) ==
    [has_description |-> TRUE, description |-> desc, has_boundingPoly |-> TRUE,
     vertices |-> Vertices, locale |-> NoneStr]

RegionDatas ==
    { Region(R_EMB), Region(R_BIO),
      [Region(<<>>) EXCEPT !.has_description = FALSE],
      [Region(R_EMB) EXCEPT !.has_boundingPoly = FALSE, !.vertices = <<>>] }

\* fullTextAnnotation: {}, a dict without 'text', or {'text': t}
FullTextDatas ==
    { [has_text |-> FALSE, text |-> <<>>, empty |-> e] : e \in BOOLEAN }
    \cup { [has_text |-> TRUE, text |-> t, empty |-> FALSE] : t \in Texts }

AbsentFullText == [has_text |-> FALSE, text |-> <<>>, empty |-> TRUE]

Payloads ==
    { [has_textAnnotations |-> TRUE, textAnnotations |-> rs,
       has_fullTextAnnotation |-> TRUE, fullTextAnnotation |-> ft] :
         rs \in SeqsUpTo(RegionDatas, MaxRegions), ft \in FullTextDatas }
    \cup
    { [has_textAnnotations |-> FALSE, textAnnotations |-> <<>>,
       has_fullTextAnnotation |-> TRUE, fullTextAnnotation |-> ft] :
         ft \in FullTextDatas }
    \cup
    { [has_textAnnotations |-> TRUE, textAnnotations |-> rs,
       has_fullTextAnnotation |-> FALSE, fullTextAnnotation |-> AbsentFullText] :
         rs \in SeqsUpTo(RegionDatas, MaxRegions) }
    \cup
    { [has_textAnnotations |-> FALSE, textAnnotations |-> <<>>,
       has_fullTextAnnotation |-> FALSE, fullTextAnnotation |-> AbsentFullText] }

EmptyPayload ==
    [has_textAnnotations |-> FALSE, textAnnotations |-> <<>>,
     has_fullTextAnnotation |-> FALSE, fullTextAnnotation |-> AbsentFullText]

\* the --insight-type values tried; the last two are not handled by
\* extract_insights
InsightTypes == {"packager_code", "label", "nutriscore", "weight_value"}

NotExtracted == [insight_type |-> "None", error |-> "None", value |-> <<>>]

(***************************************************************************)
(* Steps of the script on one response                                     *)
(***************************************************************************)
\* ocr_result = OCRResult(ocr_response)
Construct ==
    /\ phase = "response"
    /\ LET r == OCRResult(payload) IN
        /\ ocr_result' = r.value
        /\ phase' = IF r.error = "None" THEN "built" ELSE "construct_failed"
    /\ UNCHANGED <<payload, extracted, annVars, queryVars, batchVars>>

\* insights = extract_insights(ocr_result, insight_type)
ExtractInsights(insight_type) ==
    /\ phase \in {"built", "extracted"}
    /\ LET r == extract_insights(ocr_result, insight_type) IN
        extracted' = [insight_type |-> insight_type, error |-> r.error,
                      value |-> r.value]
    /\ phase' = "extracted"
    /\ UNCHANGED <<payload, ocr_result, annVars, queryVars, batchVars>>

(***************************************************************************)
(* A caller that constructs a matcher and asks the document for its texts  *)
(***************************************************************************)
\* the field selectors a caller may pass: the members of OCRField and a
\* value that is none of them
FieldsTried == OCRFields \cup {"pages"}

\* ocr_regex = OCRRegex(regex, field, lowercase): __init__ stores its
\* arguments and raises nothing
NewOCRRegex(field, lowercase) ==
    /\ custom_regex' =
          [made |-> TRUE, error |-> "None",
           value |-> OCRRegex(PACKAGER_CODE[1].ocr_regex.regex, field,
                              lowercase, "None")]
    /\ UNCHANGED <<got_text, annVars, ocrVars, batchVars>>

\* ocr_result.get_text(ocr_regex)
GetText ==
    /\ phase = "built"
    /\ custom_regex.made
    /\ custom_regex.error = "None"
    /\ LET r == get_text(ocr_result, custom_regex.value) IN
        got_text' = [asked |-> TRUE, ocr_regex |-> custom_regex.value,
                     error |-> r.error, texts |-> r.texts]
    /\ UNCHANGED <<custom_regex, annVars, ocrVars, batchVars>>

(***************************************************************************)
(* Batch run of the script: ocr_iter and run.  A source path is None or    *)
(* the names of its directories from the root down and its file name.      *)
(***************************************************************************)
\* str.isdigit on a file or directory name
isdigit(name) == name # <<>> /\ \A k \in 1..Len(name) : name[k] \in DIGIT

NoSource == [none |-> TRUE, parents |-> <<>>, name |-> <<>>]

\* '/303/371/006/5066/1.jpg'
S_EAN ==
    [none |-> FALSE,
     parents |-> << <<"3", "0", "3">>, <<"3", "7", "1">>, <<"0", "0", "6">>,
                    <<"5", "0", "6", "6">> >>,
     name |-> <<"1">>]

\* '/img/2.jpg'
S_IMG == [none |-> FALSE, parents |-> << <<"i", "m", "g">> >>, name |-> <<"2">>]

\* the loop of get_barcode_from_path over path.parents, innermost first; the
\* root has the name '' and ends the loop
RECURSIVE barcode_of_parents(_)
barcode_of_parents(parents) ==
    IF parents = <<>> THEN <<>>
    ELSE LET parent == parents[Len(parents)] IN
         IF isdigit(parent)
         THEN barcode_of_parents(SubSeq(parents, 1, Len(parents) - 1)) \o parent
         ELSE <<>>

\* get_barcode_from_path: pathlib.Path(None) raises TypeError
get_barcode_from_path(path) ==
    IF path.none THEN [error |-> "TypeError", value |-> NoneStr]
    ELSE LET barcode == barcode_of_parents(path.parents) IN
         [error |-> "None",
          value |-> IF barcode = <<>> THEN NoneStr ELSE Some(barcode)]

NoResponse == [none |-> TRUE, response |-> EmptyPayload]

\* get_ocr_response
get_ocr_response(data) ==
    LET responses == IF data.has_responses THEN data.responses ELSE <<>> IN
    IF responses = <<>> THEN NoResponse
    ELSE IF responses[1].has_error THEN NoResponse
    ELSE [none |-> FALSE, response |-> responses[1].response]

\* the body of the loop of run on one (source, ocr_json) pair: the error it
\* raises, or the lines it writes
run_body(source, ocr_json, insight_type) ==
    LET ocr_response == get_ocr_response(ocr_json) IN
    IF ocr_response.none \/ ocr_response.response = EmptyPayload
    THEN [error |-> "None", lines |-> <<>>]
    ELSE LET built == OCRResult(ocr_response.response) IN
         IF built.error # "None" THEN [error |-> built.error, lines |-> <<>>]
         ELSE LET r == extract_insights(built.value, insight_type) IN
              IF r.error # "None" THEN [error |-> r.error, lines |-> <<>>]
              ELSE IF r.value = <<>> THEN [error |-> "None", lines |-> <<>>]
              ELSE LET barcode == get_barcode_from_path(source) IN
                   IF barcode.error # "None"
                   THEN [error |-> barcode.error, lines |-> <<>>]
                   ELSE [error |-> "None",
                         lines |-> <<[insights |-> r.value,
                                      barcode |-> barcode.value,
                                      type |-> insight_type,
                                      has_source |-> ~source.none,
                                      source |-> source]>>]

\* what ocr_iter does on the next image, file or line: it raises (the
\* request or the JSON decoding fails), skips it (status 404, an image name
\* that is not a number, a line without 'content'), or yields it
ocr_iter_step(item) ==
    IF item.fetch = "error" THEN [error |-> "Exception", yields |-> FALSE]
    ELSE IF item.fetch = "skipped" THEN [error |-> "None", yields |-> FALSE]
    ELSE [error |-> "None", yields |-> TRUE]

\* responses of the provider met in a batch
P_GOOD ==
    [has_textAnnotations |-> TRUE,
     textAnnotations |-> <<Region(R_EMB), Region(R_BIO)>>,
     has_fullTextAnnotation |-> TRUE,
     fullTextAnnotation |-> [has_text |-> TRUE, text |-> T_BIO, empty |-> FALSE]]

P_PLAIN ==
    [has_textAnnotations |-> TRUE, textAnnotations |-> <<>>,
     has_fullTextAnnotation |-> TRUE,
     fullTextAnnotation |-> [has_text |-> TRUE, text |-> T_FR, empty |-> FALSE]]

P_MALFORMED ==
    [has_textAnnotations |-> TRUE,
     textAnnotations |-> <<[Region(<<>>) EXCEPT !.has_description = FALSE]>>,
     has_fullTextAnnotation |-> FALSE, fullTextAnnotation |-> AbsentFullText]

BatchPayloads == {P_GOOD, P_PLAIN, P_MALFORMED, EmptyPayload}

\* the JSON of one image: no 'responses', an error response, or a response
OcrJsons ==
    { [has_responses |-> FALSE, responses |-> <<>>],
      [has_responses |-> TRUE,
       responses |-> <<[has_error |-> TRUE, response |-> EmptyPayload]>>] }
    \cup { [has_responses |-> TRUE,
            responses |-> <<[has_error |-> FALSE, response |-> p]>>] :
              p \in BatchPayloads }

NoJson == [has_responses |-> FALSE, responses |-> <<>>]

\* items met when the input is a barcode (images of the product), a .jsonl
\* file (lines) or a single .json file
ItemsOf(sources) ==
    { [fetch |-> f, source |-> s, ocr_json |-> NoJson] :
        f \in {"error", "skipped"}, s \in sources }
    \cup { [fetch |-> "ok", source |-> s, ocr_json |-> j] :
             s \in sources, j \in OcrJsons }

Inputs ==
    { [input |-> "barcode", items |-> its] :
        its \in SeqsUpTo(ItemsOf({S_EAN}), MaxItems) }
    \cup { [input |-> "jsonl", items |-> its] :
        its \in SeqsUpTo(ItemsOf({S_IMG}), MaxItems) }
    \cup { [input |-> "json", items |-> <<it>>] :
        it \in { i \in ItemsOf({NoSource}) : i.fetch # "skipped" } }

\* one round of 'for source, ocr_json in ocr_iter(input_)' in run
RunStep ==
    /\ run_status = "running"
    /\ cursor <= Len(items)
    /\ LET item == items[cursor]
           fetched == ocr_iter_step(item)
           r == run_body(item.source, item.ocr_json, args.insight_type)
       IN  IF fetched.error # "None"
           THEN /\ run_status' = "raised"
                /\ UNCHANGED <<cursor, output>>
           ELSE IF ~fetched.yields
           THEN /\ cursor' = cursor + 1
                /\ UNCHANGED <<run_status, output>>
           ELSE IF r.error # "None"
           THEN /\ run_status' = "raised"
                /\ UNCHANGED <<cursor, output>>
           ELSE /\ output' = output \o r.lines
                /\ cursor' = cursor + 1
                /\ UNCHANGED run_status
    /\ UNCHANGED <<args, items, annVars, ocrVars, queryVars>>

\* ocr_iter is exhausted: run returns
RunEnd ==
    /\ run_status = "running"
    /\ cursor > Len(items)
    /\ run_status' = "finished"
    /\ UNCHANGED <<args, items, cursor, output, annVars, ocrVars, queryVars>>

(***************************************************************************)
(* Specifications of the annotation side                                   *)
(***************************************************************************)
InitAnnotate ==
    /\ \E e1 \in Edits, e2 \in Edits :
        /\ insights = InitTable(e1, e2)
        /\ base = InitTable(e1, e2)
        /\ pre = [p \in Procs |->
                    [insights |-> InitTable(e1, e2), saves |-> 0,
                     warnings |-> 0, requests |-> 0]]
    /\ pc = [p \in Procs |-> "idle"]
    /\ created = [p \in Procs |-> NotCreated]
    /\ tx = [p \in Procs |-> NoTx]
    /\ calls = [p \in Procs |-> 0]
    /\ instances = <<>>
    /\ http_log = <<>>
    /\ warnings = 0
    /\ saves = 0

OCRIdle ==
    /\ payload = EmptyPayload
    /\ phase = "response"
    /\ ocr_result = NotBuilt
    /\ extracted = NotExtracted

NoRegex ==
    [made |-> FALSE, error |-> "None",
     value |-> OCRRegex(compile(<<>>, FALSE), "None", FALSE, "None")]

NotAsked ==
    [asked |-> FALSE, ocr_regex |-> NoRegex.value, error |-> "None",
     texts |-> <<>>]

QueryIdle ==
    /\ custom_regex = NoRegex
    /\ got_text = NotAsked

NoArgs == [input |-> "None", insight_type |-> "None"]

BatchIdle ==
    /\ args = NoArgs
    /\ items = <<>>
    /\ cursor = 1
    /\ output = <<>>
    /\ run_status = "idle"

\* the steps of a spellcheck annotation
SpellcheckStep(p) ==
    \/ \E i \in InsightIds : SpellcheckAnnotate(p, i)
    \/ SaveOther(p)
    \/ SaveFails(p)
    \/ Commit(p)

\* one client: annotate calls run one after the other
Init == InitAnnotate /\ OCRIdle /\ QueryIdle /\ BatchIdle

Next ==
    \/ \E identifier \in Identifiers : Create(1, identifier, MaxCalls)
    \/ \E i \in InsightIds, resp \in Responses : PackagerAnnotate(1, i, resp)
    \/ SpellcheckStep(1)

Spec == Init /\ [][Next]_vars

\* two clients reconciling at the same time
NextConc ==
    \/ \E p \in Procs, identifier \in Identifiers :
          Create(p, identifier, MaxConcCalls)
    \/ \E p \in Procs : SpellcheckStep(p)
    \/ \E p \in Procs : DeadlockAbort(p)

SpecConc == Init /\ [][NextConc]_vars

\* the extraction script on one provider response
InitOCR ==
    /\ insights = InitTable(<<"ab", "cd">>, <<"ab", "cd">>)
    /\ base = insights
    /\ pre = [p \in Procs |->
                [insights |-> insights, saves |-> 0, warnings |-> 0,
                 requests |-> 0]]
    /\ pc = [p \in Procs |-> "idle"]
    /\ created = [p \in Procs |-> NotCreated]
    /\ tx = [p \in Procs |-> NoTx]
    /\ calls = [p \in Procs |-> 0]
    /\ instances = <<>>
    /\ http_log = <<>>
    /\ warnings = 0
    /\ saves = 0
    /\ payload \in Payloads
    /\ phase = "response"
    /\ ocr_result = NotBuilt
    /\ extracted = NotExtracted
    /\ QueryIdle
    /\ BatchIdle

NextOCR ==
    \/ Construct
    \/ \E insight_type \in InsightTypes : ExtractInsights(insight_type)

SpecOCR == InitOCR /\ [][NextOCR]_vars

\* a caller that builds a document, constructs a matcher and asks for the
\* texts of the matcher's field
NextQuery ==
    \/ Construct
    \/ \E field \in FieldsTried, lowercase \in BOOLEAN :
          NewOCRRegex(field, lowercase)
    \/ GetText

SpecQuery == InitOCR /\ [][NextQuery]_vars

\* a batch run of the script
InitBatch ==
    /\ insights = InitTable(<<"ab", "cd">>, <<"ab", "cd">>)
    /\ base = insights
    /\ pre = [p \in Procs |->
                [insights |-> insights, saves |-> 0, warnings |-> 0,
                 requests |-> 0]]
    /\ pc = [p \in Procs |-> "idle"]
    /\ created = [p \in Procs |-> NotCreated]
    /\ tx = [p \in Procs |-> NoTx]
    /\ calls = [p \in Procs |-> 0]
    /\ instances = <<>>
    /\ http_log = <<>>
    /\ warnings = 0
    /\ saves = 0
    /\ OCRIdle
    /\ QueryIdle
    /\ \E i \in Inputs, insight_type \in InsightTypes :
          /\ args = [input |-> i.input, insight_type |-> insight_type]
          /\ items = i.items
    /\ cursor = 1
    /\ output = <<>>
    /\ run_status = "running"

NextBatch ==
    \/ RunStep
    \/ RunEnd

SpecBatch == InitBatch /\ [][NextBatch]_vars

(***************************************************************************)
(* Properties of the annotation side                                       *)
(***************************************************************************)
SpellcheckCall(p) ==
    /\ created[p].value.cls = "IngredientSpellcheckAnnotator"
    /\ tx[p].insight # 0

PackagerCall(p) ==
    /\ created[p].value.cls = "PackagerCodeAnnotator"
    /\ tx[p].insight # 0

\* length of the correction minus length of the original, of row i of a table
DeltaOf(table, i) ==
    Len(table[i].data.correction) - Len(table[i].data.original)

\* row o of table t, both offsets moved by d
Moved(t, o, d) ==
    [t[o] EXCEPT !.data.start_offset = @ + d, !.data.end_offset = @ + d]

\* C1: after annotate returns for an accepted insight with delta # 0, every
\* other ingredient_spellcheck insight of the same barcode has start_offset
\* and end_offset increased by exactly delta, wherever its range lies, and
\* every other row (the accepted one, other barcodes, other types) is as it
\* was when annotate was entered.
C1_SiblingsShiftedByDelta ==
    \A p \in Procs :
        (SpellcheckCall(p) /\ pc[p] = "done"
            /\ DeltaOf(pre[p].insights, tx[p].insight) # 0) =>
        LET was == pre[p].insights
            acc == tx[p].insight
            d == DeltaOf(was, acc) IN
        \A o \in InsightIds :
            IF /\ o # acc
               /\ was[o].barcode = was[acc].barcode
               /\ was[o].type = "ingredient_spellcheck"
            THEN insights[o] = Moved(was, o, d)
            ELSE insights[o] = was[o]

\* an insight whose range lies after others was accepted with delta # 0,
\* and a sibling lying before it has moved
C1_Witness ==
    /\ SpellcheckCall(1) /\ pc[1] = "done"
    /\ tx[1].insight = 3
    /\ DeltaOf(pre[1].insights, 3) # 0
    /\ insights[1].data.start_offset # pre[1].insights[1].data.start_offset

\* C2: when the accepted insight's correction is as long as its original,
\* annotate returns without entering the loop: no save() is issued and the
\* table is as it was.
C2_ZeroDeltaNoWrite ==
    \A p \in Procs :
        (SpellcheckCall(p) /\ DeltaOf(pre[p].insights, tx[p].insight) = 0) =>
            /\ pc[p] = "done"
            /\ saves = pre[p].saves
            /\ tx[p].writes = <<>>
            /\ insights = pre[p].insights

\* a zero-delta insight that has siblings was accepted
C2_Witness ==
    /\ SpellcheckCall(1) /\ pc[1] = "done"
    /\ DeltaOf(pre[1].insights, tx[1].insight) = 0
    /\ tx[1].insight \in 1..4

\* C3: the sibling update is all-or-nothing: while the loop runs nothing is
\* persisted; if a save fails the call ends with the error and the persisted
\* table has no sibling shifted; if it returns, every sibling is shifted.
C3_AllOrNothing ==
    \A p \in Procs : SpellcheckCall(p) =>
        LET was == pre[p].insights
            acc == tx[p].insight
            sib == { o \in InsightIds :
                       /\ o # acc
                       /\ was[o].barcode = was[acc].barcode
                       /\ was[o].type = "ingredient_spellcheck" } IN
        /\ pc[p] = "loop" => insights = was
        /\ pc[p] = "failed" => (tx[p].error # None /\ insights = was)
        /\ pc[p] = "done" =>
              \/ \A o \in sib : insights[o] = Moved(was, o, DeltaOf(was, acc))
              \/ \A o \in sib : insights[o] = was[o]

\* a save failed after an earlier sibling of the same call had been saved
C3_Witness ==
    /\ SpellcheckCall(1) /\ pc[1] = "failed"
    /\ tx[1].error = "DatabaseError"
    /\ saves > pre[1].saves

\* what the committed reconciliations owe row o
Due(o) ==
    LET owes(p) ==
            IF /\ o # tx[p].insight
               /\ base[o].barcode = base[tx[p].insight].barcode
               /\ base[o].type = "ingredient_spellcheck"
            THEN DeltaOf(base, tx[p].insight) ELSE 0
    IN owes(1) + owes(2)

\* C4: when two annotate calls on distinct insights X and Y of one product
\* have both completed, however they interleaved, every spellcheck insight
\* is shifted by the deltas of the calls it is a sibling of: a third sibling
\* by d1 + d2, X by d2, Y by d1.
C4_NoLostUpdate ==
    (/\ \A p \in Procs : SpellcheckCall(p) /\ pc[p] = "done"
     /\ tx[1].insight # tx[2].insight) =>
        \A o \in InsightIds : base[o].type = "ingredient_spellcheck" =>
            insights[o] = Moved(base, o, Due(o))

\* C5: create fails with the unknown-annotator error for every identifier
\* that is not a key of the mapping and never hands out an annotator for
\* it; for a key it returns a new instance of the class the mapping gives;
\* distinct keys have distinct classes.
C5_FactoryCreate ==
    /\ \A a \in DOMAIN mapping, b \in DOMAIN mapping :
          a # b => mapping[a] # mapping[b]
    /\ \A j \in 1..Len(instances), k \in 1..Len(instances) :
          j # k => instances[j].oid # instances[k].oid
    /\ \A p \in Procs : created[p].identifier # None =>
          IF created[p].identifier = "packager_code"
          THEN /\ created[p].error = None
               /\ created[p].value.cls = "PackagerCodeAnnotator"
               /\ created[p].value = instances[Len(instances)]
          ELSE IF created[p].identifier = "ingredient_spellcheck"
          THEN /\ created[p].error = None
               /\ created[p].value.cls = "IngredientSpellcheckAnnotator"
               /\ created[p].value = instances[Len(instances)]
          ELSE /\ created[p].error = "unknown annotator"
               /\ created[p].value = NoAnnotator
               /\ pc[p] = "failed"

\* an unregistered identifier was refused after a registered one was served
C5_Witness ==
    /\ created[1].identifier = "label"
    /\ created[1].error = "unknown annotator"
    /\ Len(instances) = 1

\* the response to the request of the annotate call process p has made
LastResponse == http_log[Len(http_log)].resp

C6_UnknownInsightType ==
    phase = "extracted" =>
        IF extracted.insight_type \in {"packager_code", "label"}
        THEN extracted.error = "None"
        ELSE extracted.error = "unknown insight type"

\* an unregistered type was asked for on a document with no text at all
C6_Witness ==
    /\ phase = "extracted"
    /\ payload = EmptyPayload
    /\ extracted.insight_type = "nutriscore"
    /\ extracted.error = "unknown insight type"

\* the positions at which sub occurs in text
OccurrencesOf(sub, text) ==
    { pos \in 1..Len(text) :
        /\ pos + Len(sub) - 1 <= Len(text)
        /\ SubSeq(text, pos, pos + Len(sub) - 1) = sub }

\* the full text of the response, newlines turned into spaces
GivenContiguousText ==
    [k \in 1..Len(payload.fullTextAnnotation.text) |->
        IF payload.fullTextAnnotation.text[k] = "\n" THEN " "
        ELSE payload.fullTextAnnotation.text[k]]

HasFullText ==
    /\ payload.has_fullTextAnnotation
    /\ payload.fullTextAnnotation.has_text

\* C8: when the contiguous text contains 'FR 83.400.011 CE', extracting
\* 'packager_code' yields, for each occurrence, one record
\* {raw: 'FR 83.400.011 CE', value: 'FR 83.400.011 CE', tag: 'eu_fr'}.
C8_FrenchPackagerCode ==
    (/\ phase = "extracted"
     /\ extracted.insight_type = "packager_code"
     /\ HasFullText
     /\ OccurrencesOf(T_FR, GivenContiguousText) # {}) =>
        Cardinality({ k \in 1..Len(extracted.value) :
                        extracted.value[k] =
                            [raw |-> T_FR, text |-> T_FR, type |-> "eu_fr"] })
            = Cardinality(OccurrencesOf(T_FR, GivenContiguousText))

\* the positions of the full text where 'agriculture biologique' stands in
\* any letter case, followed by a space or a newline
OrganicAt ==
    LET text == payload.fullTextAnnotation.text
        words == SubSeq(T_BIO, 1, Len(T_BIO) - 1) IN
    { pos \in 1..Len(text) :
        /\ pos + Len(words) <= Len(text)
        /\ \A k \in 1..Len(words) : lower_char(text[pos + k - 1]) = words[k]
        /\ text[pos + Len(words)] \in {" ", "\n"} }

\* C9: extracting 'label' yields exactly one record with raw text
\* 'agriculture biologique ' for each place where the full text has these
\* words in any letter case followed by a space or a newline, each tagged
\* 'en:organic'; a matcher without a normalizer reports its category's tag.
C9_OrganicLabel ==
    (phase = "extracted" /\ extracted.insight_type = "label" /\ HasFullText) =>
        /\ Cardinality({ k \in 1..Len(extracted.value) :
                            extracted.value[k].text = T_BIO })
              = Cardinality(OrganicAt)
        /\ \A k \in 1..Len(extracted.value) :
              /\ extracted.value[k].text = T_BIO
                    => extracted.value[k].label_tag = EN_ORGANIC
              /\ extracted.value[k].text = <<"c", "e", "r", "t", "i", "f", "i", "é", " ", "a", "b", ".">>
                    => extracted.value[k].label_tag = FR_AB
              /\ extracted.value[k].label_tag # XX_BIO_XX

\* the words occur in upper case before a newline and in lower case before
\* a space, and both were reported
C9_Witness ==
    /\ phase = "extracted"
    /\ extracted.insight_type = "label"
    /\ HasFullText
    /\ payload.fullTextAnnotation.text = T_BIO_UPPER_NL \o T_BIO
    /\ Cardinality({ k \in 1..Len(extracted.value) :
                        extracted.value[k] =
                            [label_tag |-> EN_ORGANIC, text |-> T_BIO] }) = 2

MalformedInside ==
    \/ /\ payload.has_textAnnotations
       /\ \E k \in 1..Len(payload.textAnnotations) :
             \/ ~payload.textAnnotations[k].has_description
             \/ ~payload.textAnnotations[k].has_boundingPoly
    \/ /\ payload.has_fullTextAnnotation
       /\ ~payload.fullTextAnnotation.empty
       /\ ~payload.fullTextAnnotation.has_text

\* C11: a response whose annotations lack fields (a region without
\* 'description' or 'boundingPoly', a 'fullTextAnnotation' object without
\* 'text') raises no error: the document is built, and extracting a
\* registered category from it gives the empty result.
C11_MalformedFieldsDegrade ==
    MalformedInside =>
        /\ phase # "construct_failed"
        /\ (phase = "extracted"
                /\ extracted.insight_type \in {"packager_code", "label"}) =>
              /\ extracted.error = "None"
              /\ extracted.value = <<>>

(***************************************************************************)
(* Properties of a batch run                                               *)
(***************************************************************************)
Registered == args.insight_type \in {"packager_code", "label"}

Ended == run_status \in {"finished", "raised"}

\* the items of the input that can be fetched and processed
Sound(k) ==
    /\ items[k].fetch # "error"
    /\ items[k].fetch = "ok" =>
          run_body(items[k].source, items[k].ocr_json,
                   args.insight_type).error = "None"

\* the lines of the items that can be fetched and processed, in input order
SoundLines ==
    Concat([k \in 1..Len(items) |->
        IF Sound(k) /\ items[k].fetch = "ok"
        THEN run_body(items[k].source, items[k].ocr_json,
                      args.insight_type).lines
        ELSE <<>>])

\* C12: in a batch run, an item that cannot be fetched or processed is
\* skipped and affects no other item: the run goes through the whole input
\* and writes the lines of all the other items.
C12_ItemFailureIsolated ==
    (Ended /\ Registered) =>
        /\ run_status = "finished"
        /\ output = SoundLines

\* the sequence of 13 digits spelled by the directories of S_EAN
EAN == <<"3", "0", "3", "3", "7", "1", "0", "0", "6", "5", "0", "6", "6">>

\* the line due to item k, if any: its response is present, is no error
\* response, and holds at least one insight of the requested type
ExpectedLine(k) ==
    LET item == items[k]
        responses == item.ocr_json.responses
        found == extract_insights(OCRResult(responses[1].response).value,
                                  args.insight_type).value
    IN  IF /\ item.fetch = "ok"
           /\ item.ocr_json.has_responses
           /\ responses # <<>>
           /\ ~responses[1].has_error
           /\ found # <<>>
        THEN <<[type |-> args.insight_type,
                barcode |-> IF item.source = S_EAN THEN Some(EAN) ELSE NoneStr,
                insights |-> found,
                has_source |-> item.source # NoSource,
                source |-> item.source]>>
        ELSE <<>>

\* no item of the input fails to be fetched and no response is malformed
NoItemFailure ==
    \A k \in 1..Len(items) :
        /\ items[k].fetch # "error"
        /\ \A j \in 1..Len(items[k].ocr_json.responses) :
              items[k].ocr_json.responses[j].response # P_MALFORMED

\* C13: a batch run writes exactly one line for each source document that
\* yields at least one insight, in input order, carrying the type, the
\* barcode, the insights and, when it is known, the source; a document with
\* no insight or with a missing or error response gets no line.
C13_OneLinePerDocument ==
    (Ended /\ Registered /\ NoItemFailure) =>
        output = Concat([k \in 1..Len(items) |-> ExpectedLine(k)])

(***************************************************************************)
(* Further properties of the annotation side                               *)
(***************************************************************************)
\* C14: when an insight is accepted with delta # 0, a sibling (same barcode,
\* type 'ingredient_spellcheck') that has already been annotated keeps its
\* start_offset and end_offset: only still-pending siblings are shifted.
C14_AnnotatedSiblingKept ==
    \A p \in Procs :
        (SpellcheckCall(p) /\ pc[p] = "done"
            /\ DeltaOf(pre[p].insights, tx[p].insight) # 0) =>
        LET was == pre[p].insights
            acc == tx[p].insight IN
        \A o \in InsightIds :
            (/\ o # acc
             /\ was[o].barcode = was[acc].barcode
             /\ was[o].type = "ingredient_spellcheck"
             /\ was[o].annotation # PENDING) =>
                /\ insights[o].data.start_offset = was[o].data.start_offset
                /\ insights[o].data.end_offset = was[o].data.end_offset

\* end_offset - start_offset of row o of a table
RangeLen(table, o) == table[o].data.end_offset - table[o].data.start_offset

\* C19: whatever annotate calls have run (positive, negative or zero
\* deltas, completed, failed or under way), every spellcheck insight has the
\* range length end_offset - start_offset it had at the beginning, in the
\* table and in the pending updates of a running call.
C19_RangeLengthPreserved ==
    /\ \A o \in InsightIds :
          insights[o].type = "ingredient_spellcheck" =>
              RangeLen(insights, o) = RangeLen(base, o)
    /\ \A p \in Procs : \A o \in DOMAIN tx[p].writes :
          tx[p].writes[o].end_offset - tx[p].writes[o].start_offset
              = RangeLen(base, o)

\* row 2 has been shifted by +3 and then by -1 by two completed calls
C19_Witness ==
    /\ calls[1] = 2
    /\ pc[1] = "done"
    /\ insights[2].data.start_offset = base[2].data.start_offset + 2
    /\ insights[2].data.end_offset = base[2].data.end_offset + 2
    /\ insights[4].data.start_offset = base[4].data.start_offset + 2

(***************************************************************************)
(* Properties of the document's text queries                               *)
(***************************************************************************)
\* position k of string t is the lower-case form of position k of string u
LowerOf(t, u) ==
    /\ Len(t) = Len(u)
    /\ \A k \in 1..Len(u) :
          \/ /\ \E j \in 1..Len(UpperChars) : UpperChars[j] = u[k]
             /\ \A j \in 1..Len(UpperChars) :
                   UpperChars[j] = u[k] => t[k] = LowerChars[j]
          \/ /\ \A j \in 1..Len(UpperChars) : UpperChars[j] # u[k]
             /\ t[k] = u[k]

\* C15: the texts a per-region matcher gets are exactly one string per
\* region, in provider order: the region's text when lowercase is false,
\* its lower-case form when lowercase is true.
C15_OneStringPerRegion ==
    (got_text.asked /\ got_text.ocr_regex.field = "text_annotations") =>
        /\ got_text.error = "None"
        /\ Len(got_text.texts) = Len(payload.textAnnotations)
        /\ \A k \in 1..Len(payload.textAnnotations) :
              IF got_text.ocr_regex.lowercase
              THEN LowerOf(got_text.texts[k],
                           payload.textAnnotations[k].description)
              ELSE got_text.texts[k] = payload.textAnnotations[k].description

\* C16: the stored contiguous text is the full text with each newline
\* turned into one space (same length, no newline, equal elsewhere); the
\* contiguous query answers with the stored value, in lower case when asked;
\* the text handed to a matcher of the contiguous text has no newline.
C16_ContiguousText ==
    (phase = "built" /\ ~ocr_result.full_text_annotation.none) =>
        LET text == payload.fullTextAnnotation.text
            stored == ocr_result.full_text_annotation.contiguous_text IN
        /\ ocr_result.full_text_annotation.text = text
        /\ Len(stored) = Len(text)
        /\ \A k \in 1..Len(text) :
              /\ stored[k] # "\n"
              /\ text[k] # "\n" => stored[k] = text[k]
              /\ text[k] = "\n" => stored[k] = " "
        /\ get_full_text_contiguous(ocr_result, FALSE) = Some(stored)
        /\ ~get_full_text_contiguous(ocr_result, TRUE).none
        /\ LowerOf(get_full_text_contiguous(ocr_result, TRUE).str, stored)
        /\ (got_text.asked
                /\ got_text.ocr_regex.field = "full_text_contiguous") =>
              /\ got_text.error = "None"
              /\ \A t \in 1..Len(got_text.texts) :
                    /\ \A k \in 1..Len(got_text.texts[t]) :
                          got_text.texts[t][k] # "\n"
                    /\ IF got_text.ocr_regex.lowercase
                       THEN LowerOf(got_text.texts[t], stored)
                       ELSE got_text.texts[t] = stored

\* a full text with a newline was stored, and a matcher of the contiguous
\* text got it with a space in the newline's place
C16_Witness ==
    /\ phase = "built"
    /\ payload.has_fullTextAnnotation
    /\ payload.fullTextAnnotation.text = T_BIO_UPPER_NL \o T_FR
    /\ got_text.asked
    /\ got_text.ocr_regex.field = "full_text_contiguous"
    /\ got_text.ocr_regex.lowercase
    /\ Len(got_text.texts) = 1
    /\ got_text.texts[1][Len(T_BIO_UPPER_NL)] = " "
    /\ got_text.texts[1][Len(T_BIO_UPPER_NL) + 1] = "f"

\* C17: a matcher whose field is not a member of OCRField is rejected when
\* it is constructed, and get_text never raises the invalid-field error on
\* a document.
C17_InvalidFieldRejectedEarly ==
    /\ (custom_regex.made /\ custom_regex.value.field \notin OCRFields) =>
          custom_regex.error # "None"
    /\ got_text.error # "invalid field"

(***************************************************************************)
(* Order of the extracted records                                          *)
(***************************************************************************)
NL_BIO_01 == <<"N", "L", "-", "B", "I", "O", "-", "0", "1">>

DE_OKO_012 == <<"D", "E", "-", "Ö", "K", "O", "-", "0", "1", "2">>

FR_BIO_01 == <<"F", "R", "-", "B", "I", "O", "-", "0", "1">>

EMB_12345A == <<"E", "M", "B", " ", "1", "2", "3", "4", "5", "a">>

CERTIFIE_AB == <<"c", "e", "r", "t", "i", "f", "i", "é", " ", "a", "b",
    ".">>

\* the organic codes written on a region, left to right
CodesOn(description) ==
    IF description = R_EMB THEN <<NL_BIO_01>>
    ELSE IF description = R_BIO THEN <<DE_OKO_012, FR_BIO_01>>
    ELSE <<>>

\* the codes of all regions of the response, regions in provider order
CodesOfRegions ==
    Concat([k \in 1..Len(payload.textAnnotations) |->
        LET codes == CodesOn(payload.textAnnotations[k].description) IN
        [j \in 1..Len(codes) |-> [label_tag |-> codes[j], text |-> codes[j]]]])

\* position of a label record's matcher in LABELS_REGEX
RankOf(record) ==
    IF record.label_tag = EN_ORGANIC THEN 1
    ELSE IF record.label_tag = FR_AB THEN 3
    ELSE 2

IsCode(record) == RankOf(record) = 2

IsEmb(record) == record.type = "fr_emb"

\* the order of the records of the last extraction
InOrder ==
    (phase = "extracted" /\ extracted.error = "None") =>
        LET value == extracted.value IN
        /\ extracted.insight_type = "label" =>
              /\ \A j \in 1..Len(value) : \A k \in j..Len(value) :
                    RankOf(value[j]) <= RankOf(value[k])
              /\ SelectSeq(value, IsCode) = CodesOfRegions
              /\ Cardinality({ k \in 1..Len(value) : RankOf(value[k]) = 3 })
                    = IF HasFullText
                      THEN Cardinality(OccurrencesOf(T_AB,
                                            payload.fullTextAnnotation.text))
                      ELSE 0
              /\ \A k \in 1..Len(value) :
                    RankOf(value[k]) = 3 => value[k].text = CERTIFIE_AB
        /\ extracted.insight_type = "packager_code" =>
              /\ \A j \in 1..Len(value) : \A k \in j..Len(value) :
                    ~(value[j].type = "eu_fr" /\ value[k].type = "fr_emb")
              /\ SelectSeq(value, IsEmb) =
                    Concat([k \in 1..Len(payload.textAnnotations) |->
                        IF payload.textAnnotations[k].description = R_EMB
                        THEN <<[raw |-> EMB_12345A, text |-> EMB_12345A,
                                type |-> "fr_emb"]>>
                        ELSE <<>>])

\* C18: the records of an extraction come in a fixed order: matchers in
\* registry order; within a matcher, the matches of an earlier candidate
\* text before those of a later one; within a text, every non-overlapping
\* match from left to right.  An extraction leaves the document as it was,
\* and a second extraction of the same category gives the same sequence.
C18_DeterministicOrder ==
    [][/\ InOrder'
       /\ phase \in {"built", "extracted"} =>
             /\ ocr_result' = ocr_result
             /\ payload' = payload
             /\ (phase = "extracted"
                    /\ extracted'.insight_type = extracted.insight_type) =>
                   extracted' = extracted]_vars

\* labels were extracted from a response whose regions hold three codes and
\* whose full text names two labels in the reverse of the registry order
C18_Witness ==
    /\ phase = "extracted"
    /\ extracted.insight_type = "label"
    /\ Len(payload.textAnnotations) = 2
    /\ payload.textAnnotations[1].description = R_EMB
    /\ payload.textAnnotations[2].description = R_BIO
    /\ HasFullText
    /\ payload.fullTextAnnotation.text = T_AB \o T_BIO
    /\ extracted.value =
          <<[label_tag |-> EN_ORGANIC, text |-> T_BIO],
            [label_tag |-> NL_BIO_01, text |-> NL_BIO_01],
            [label_tag |-> DE_OKO_012, text |-> DE_OKO_012],
            [label_tag |-> FR_BIO_01, text |-> FR_BIO_01],
            [label_tag |-> FR_AB, text |-> CERTIFIE_AB]>>

====
